---- MODULE Spec2Model ----
(***************************************************************************)
(* Model of visioncg/cbcalib.py: chessboard corner detection, batch        *)
(* preparation, object point construction and the computation graphs       *)
(* (CGCalibrateCamera, CGSolvePnP, CGPreparePointsStereo, the graph of     *)
(* create_stereo_cg) declared on top of them.                              *)
(*                                                                         *)
(* Python values are modelled with their dynamic type: None is the record  *)
(* [tag |-> "None"], a NumPy array is [tag |-> "ndarray", data |-> rows].  *)
(* An image is opaque to cbcalib.py; what the OpenCV corner finder reports *)
(* for it is a property of the image (pattern visible or not, and which    *)
(* corners).  Pixel coordinates are integers in tenths of a pixel.         *)
(***************************************************************************)
EXTENDS Integers, Sequences, FiniteSets, TLC

VARIABLES tokens, order, calls, op, result

vars == <<tokens, order, calls, op, result>>

(* ------------------------------ bounds -------------------------------- *)

MaxImages == 3

MaxW == 3

MaxH == 2

MaxSquare == 2

MaxFairImages == 1

(* --------------------------- Python values ---------------------------- *)

None == [tag |-> "None"]

NdArray(rows) == [tag |-> "ndarray", data |-> rows]

IsNone(v) == v.tag = "None"

Range(s) == {s[i] : i \in 1..Len(s)}

RECURSIVE Zip(_, _)
Zip(a, b) ==
    IF a = <<>> \/ b = <<>> THEN <<>>
    ELSE << <<Head(a), Head(b)>> >> \o Zip(Tail(a), Tail(b))

(* C-order flattening of a nested array down to its scalars *)
RECURSIVE Ravel(_, _)
Ravel(a, ndim) ==
    IF ndim = 0 THEN <<a>>
    ELSE IF a = <<>> THEN <<>>
    ELSE Ravel(Head(a), ndim - 1) \o Ravel(Tail(a), ndim)

(* ndarray.reshape(-1, 2) of an array of ndim dimensions *)
ReshapeRowsOf2(a, ndim) ==
    LET flat == Ravel(a, ndim)
    IN  [r \in 1..(Len(flat) \div 2) |-> <<flat[2 * r - 1], flat[2 * r]>>]

(* ------------------------- the images and OpenCV ---------------------- *)

Image(id, pattern) == [id |-> id, pattern |-> pattern]

(* two images showing the pattern, told apart by their corners, and one     *)
(* image in which the finder detects nothing                                *)
ImageSet == {Image(1, TRUE), Image(2, TRUE), Image(0, FALSE)}

ImageListsUpTo(maxlen) == UNION {[1..n -> ImageSet] : n \in 0..maxlen}

ImageLists == ImageListsUpTo(MaxImages)

(* cv2.findChessboardCorners: (found, corners); corners is an N x 1 x 2   *)
(* array, N = W * H, when the pattern is found                            *)
FindChessboardCorners(im, pattern_size_wh) ==
    IF im.pattern
    THEN <<TRUE, NdArray([j \in 1..(pattern_size_wh[1] * pattern_size_wh[2]) |->
                            << <<100 * im.id + 10 * j, 100 * im.id>> >>])>>
    ELSE <<FALSE, None>>

(* cv2.cornerSubPix: moves every corner by a sub-pixel amount, in place   *)
CornerSubPix(im, corners) ==
    NdArray([j \in 1..Len(corners.data) |->
               << <<corners.data[j][1][1] + im.id, corners.data[j][1][2] - im.id>> >>])

(* ----------------------------- cbcalib.py ----------------------------- *)

(* the result of find_cbc and whether it invoked cornerSubPix *)
find_cbc(im, pattern_size_wh) ==
    LET res == FindChessboardCorners(im, pattern_size_wh)
        found == res[1]
        corners == res[2]
    IN  IF found
        THEN [res |-> <<found, CornerSubPix(im, corners)>>, subpix |-> TRUE]
        ELSE [res |-> res, subpix |-> FALSE]

(* variant: a failed detection reported as an array of zero points *)
cbc_opencv_to_numpy_empty(success, cbc_res) ==
    IF success THEN NdArray(ReshapeRowsOf2(cbc_res.data, 3)) ELSE NdArray(<<>>)

cbc_opencv_to_numpy(success, cbc_res) ==
    IF success THEN NdArray(ReshapeRowsOf2(cbc_res.data, 3)) ELSE None

find_corners_in_one_image(im, pattern_size_wh) ==
    LET r == find_cbc(im, pattern_size_wh).res
    IN  cbc_opencv_to_numpy(r[1], r[2])

(* variant: failed detections are dropped from the list *)
RECURSIVE prepare_corners_skip_failed(_, _)
prepare_corners_skip_failed(images, pattern_size_wh) ==
    IF images = <<>> THEN <<>>
    ELSE LET res == find_corners_in_one_image(Head(images), pattern_size_wh)
         IN  (IF IsNone(res) THEN <<>> ELSE <<res>>)
             \o prepare_corners_skip_failed(Tail(images), pattern_size_wh)

RECURSIVE prepare_corners(_, _)
prepare_corners(images, pattern_size_wh) ==
    IF images = <<>> THEN <<>>
    ELSE <<find_corners_in_one_image(Head(images), pattern_size_wh)>>
         \o prepare_corners(Tail(images), pattern_size_wh)

(* variant: a pair is discarded only when both sides failed *)
RECURSIVE FilterPairs_and(_, _, _)
FilterPairs_and(pairs, res1, res2) ==
    IF pairs = <<>> THEN <<res1, res2>>
    ELSE LET c1 == Head(pairs)[1]
             c2 == Head(pairs)[2]
         IN  IF ~(IsNone(c1) /\ IsNone(c2))
             THEN FilterPairs_and(Tail(pairs), Append(res1, c1), Append(res2, c2))
             ELSE FilterPairs_and(Tail(pairs), res1, res2)

(* the loop of prepare_corners_stereo over zip(corners1, corners2) *)
RECURSIVE FilterPairs(_, _, _)
FilterPairs(pairs, res1, res2) ==
    IF pairs = <<>> THEN <<res1, res2>>
    ELSE LET c1 == Head(pairs)[1]
             c2 == Head(pairs)[2]
         IN  IF ~(IsNone(c1) \/ IsNone(c2))
             THEN FilterPairs(Tail(pairs), Append(res1, c1), Append(res2, c2))
             ELSE FilterPairs(Tail(pairs), res1, res2)

FilterCornersStereo(corners1, corners2) ==
    LET res == FilterPairs(Zip(corners1, corners2), <<>>, <<>>)
    IN  <<res[1], res[2], Len(res[1])>>

prepare_corners_stereo(images1, images2, pattern_size_wh) ==
    FilterCornersStereo(prepare_corners(images1, pattern_size_wh),
                        prepare_corners(images2, pattern_size_wh))

(* variant: idx advances only past a jointly successful pair *)
RECURSIVE IndicesLoop_idx_on_success(_, _, _)
IndicesLoop_idx_on_success(pairs, idx, indices) ==
    IF pairs = <<>> THEN indices
    ELSE LET c1 == Head(pairs)[1]
             c2 == Head(pairs)[2]
         IN  IF ~(IsNone(c1) \/ IsNone(c2))
             THEN IndicesLoop_idx_on_success(Tail(pairs), idx + 1, Append(indices, idx))
             ELSE IndicesLoop_idx_on_success(Tail(pairs), idx, indices)

(* variant: an index is kept unless both sides failed *)
RECURSIVE IndicesLoop_and(_, _, _)
IndicesLoop_and(pairs, idx, indices) ==
    IF pairs = <<>> THEN indices
    ELSE LET c1 == Head(pairs)[1]
             c2 == Head(pairs)[2]
         IN  IndicesLoop_and(Tail(pairs), idx + 1,
                             IF ~(IsNone(c1) /\ IsNone(c2))
                             THEN Append(indices, idx) ELSE indices)

(* the loop of prepare_indices_stereocalib *)
RECURSIVE IndicesLoop(_, _, _)
IndicesLoop(pairs, idx, indices) ==
    IF pairs = <<>> THEN indices
    ELSE LET c1 == Head(pairs)[1]
             c2 == Head(pairs)[2]
         IN  IndicesLoop(Tail(pairs), idx + 1,
                         IF ~(IsNone(c1) \/ IsNone(c2))
                         THEN Append(indices, idx) ELSE indices)

prepare_indices_stereocalib(corners1, corners2) ==
    IndicesLoop(Zip(corners1, corners2), 0, <<>>)

(* np.indices((W, H)): shape (2, W, H) *)
NpIndices(wh) ==
    [k \in 1..2 |-> [i \in 1..wh[1] |-> [j \in 1..wh[2] |->
        IF k = 1 THEN i - 1 ELSE j - 1]]]

(* ndarray.T of a 3-d array: the axes reversed *)
Transpose3(a) ==
    [j \in 1..Len(a[1][1]) |-> [i \in 1..Len(a[1]) |-> [k \in 1..Len(a) |->
        a[k][i][j]]]]

(* variant: np.indices reshaped without the transposition *)
get_pattern_points_no_transpose(pattern_size_wh, square_size) ==
    LET n == pattern_size_wh[1] * pattern_size_wh[2]
        xy == ReshapeRowsOf2(NpIndices(pattern_size_wh), 3)
    IN  NdArray([p \in 1..n |-> <<xy[p][1] * square_size, xy[p][2] * square_size, 0>>])

get_pattern_points(pattern_size_wh, square_size) ==
    LET n == pattern_size_wh[1] * pattern_size_wh[2]
        zeros == [p \in 1..n |-> <<0, 0, 0>>]
        xy == ReshapeRowsOf2(Transpose3(NpIndices(pattern_size_wh)), 3)
        filled == [p \in 1..n |-> <<xy[p][1], xy[p][2], zeros[p][3]>>]
    IN  NdArray([p \in 1..n |-> <<filled[p][1] * square_size,
                                   filled[p][2] * square_size,
                                   filled[p][3] * square_size>>])

make_list_of_identical_pattern_points(num_images, pattern_points) ==
    [i \in 1..num_images |-> pattern_points]

prepare_object_points(num_images, pattern_size_wh, square_size) ==
    make_list_of_identical_pattern_points(num_images,
        get_pattern_points(pattern_size_wh, square_size))

(* cv2.calibrateCamera, cv2.stereoCalibrate, cv2.stereoRectify, cv2.solvePnP *)
(* and rvec_to_rmat are numerical oracles: output k of a call is opaque   *)
Opaque(fn, k) == [tag |-> "opaque", fn |-> fn, out |-> k]

calibrate_camera(im_wh, object_points, image_points) ==
    [k \in 1..5 |-> Opaque("cv2.calibrateCamera", k)]

calibrate_stereo(object_points, impoints_1, impoints_2, cm_1, dc_1, cm_2, dc_2, im_wh) ==
    LET res == [k \in 1..9 |-> Opaque("cv2.stereoCalibrate", k)]
    IN  SubSeq(res, Len(res) - 3, Len(res))

(* the calls into OpenCV made for one image and for a list of images *)
FindCalls(im, pattern_size_wh) ==
    <<[fn |-> "cv2.findChessboardCorners", image |-> im]>>
    \o (IF find_cbc(im, pattern_size_wh).subpix
        THEN <<[fn |-> "cv2.cornerSubPix", image |-> im]>> ELSE <<>>)

RECURSIVE PrepareCalls(_, _)
PrepareCalls(images, pattern_size_wh) ==
    IF images = <<>> THEN <<>>
    ELSE FindCalls(Head(images), pattern_size_wh)
         \o PrepareCalls(Tail(images), pattern_size_wh)

(* --------------------------- graph declarations ------------------------ *)

Stage(in, out) == [in |-> in, out |-> out]

FuncIO_CGCalibrateCamera ==
    [prepare_corners |-> Stage(<<"calibration_images", "pattern_size_wh">>,
                               <<"image_points">>),
     count_images |-> Stage(<<"calibration_images">>, <<"num_images">>),
     prepare_object_points |-> Stage(<<"num_images", "pattern_size_wh", "square_size">>,
                                     <<"object_points">>),
     calibrate_camera |-> Stage(<<"im_wh", "object_points", "image_points">>,
                                <<"rms", "camera_matrix", "dist_coefs", "rvecs", "tvecs">>)]

FuncIO_CGSolvePnP ==
    [detect_corners |-> Stage(<<"image", "pattern_size_wh">>, <<"image_points">>),
     solve_pnp |-> Stage(<<"pattern_points", "image_points", "cam_matrix", "dist_coefs">>,
                         <<"pnp_retval", "rvec", "tvec">>),
     rvec_to_rmat |-> Stage(<<"rvec">>, <<"rmat">>)]

FuncIO_CGPreparePointsStereo ==
    [prepare_corners_1 |-> Stage(<<"calibration_images_1", "pattern_size_wh">>,
                                 <<"image_points_1">>),
     prepare_corners_2 |-> Stage(<<"calibration_images_2", "pattern_size_wh">>,
                                 <<"image_points_2">>),
     prepare_indices |-> Stage(<<"image_points_1", "image_points_2">>, <<"indices">>),
     get_pattern_points |-> Stage(<<"pattern_size_wh", "square_size">>,
                                  <<"pattern_points">>)]

(* variant: calibrate_stereo declared with camera 1's intrinsics twice *)
FuncIO_CGCalibrateStereoBase_cm1_twice ==
    [calibrate_camera_1 |-> Stage(<<"im_wh", "object_points", "image_points_1">>,
                                  <<"rms_1", "cm_1", "dc_1", "rvecs_1", "tvecs_1">>),
     calibrate_camera_2 |-> Stage(<<"im_wh", "object_points", "image_points_2">>,
                                  <<"rms_2", "cm_2", "dc_2", "rvecs_2", "tvecs_2">>),
     calibrate_stereo |-> Stage(<<"object_points", "image_points_1", "image_points_2",
                                  "cm_1", "dc_1", "cm_1", "dc_1", "im_wh">>,
                                <<"stereo_rmat", "stereo_tvec", "essential_mat",
                                  "fundamental_mat">>),
     compute_rectification_transforms |->
         Stage(<<"cm_1", "dc_1", "cm_2", "dc_2", "im_wh", "stereo_rmat", "stereo_tvec">>,
               <<"R1", "R2", "P1", "P2", "Q", "validPixROI1", "validPixROI2">>)]

FuncIO_CGCalibrateStereoBase ==
    [calibrate_camera_1 |-> Stage(<<"im_wh", "object_points", "image_points_1">>,
                                  <<"rms_1", "cm_1", "dc_1", "rvecs_1", "tvecs_1">>),
     calibrate_camera_2 |-> Stage(<<"im_wh", "object_points", "image_points_2">>,
                                  <<"rms_2", "cm_2", "dc_2", "rvecs_2", "tvecs_2">>),
     calibrate_stereo |-> Stage(<<"object_points", "image_points_1", "image_points_2",
                                  "cm_1", "dc_1", "cm_2", "dc_2", "im_wh">>,
                                <<"stereo_rmat", "stereo_tvec", "essential_mat",
                                  "fundamental_mat">>),
     compute_rectification_transforms |->
         Stage(<<"cm_1", "dc_1", "cm_2", "dc_2", "im_wh", "stereo_rmat", "stereo_tvec">>,
               <<"R1", "R2", "P1", "P2", "Q", "validPixROI1", "validPixROI2">>)]

(* variant: prepare_corners declares its count under another name *)
FuncIO_stereo_front_misnamed ==
    [prepare_corners |-> Stage(<<"calibration_images_1", "calibration_images_2",
                                 "pattern_size_wh">>,
                               <<"image_points_1", "image_points_2", "n_images">>),
     prepare_object_points |-> Stage(<<"num_images", "pattern_size_wh", "square_size">>,
                                     <<"object_points">>)]

FuncIO_stereo_front ==
    [prepare_corners |-> Stage(<<"calibration_images_1", "calibration_images_2",
                                 "pattern_size_wh">>,
                               <<"image_points_1", "image_points_2", "num_images">>),
     prepare_object_points |-> Stage(<<"num_images", "pattern_size_wh", "square_size">>,
                                     <<"object_points">>)]

(* compgraph.graph_union: the two stage mappings merged *)
graph_union(io1, io2) == io2 @@ io1

FuncIO_create_stereo_cg == graph_union(FuncIO_stereo_front, FuncIO_CGCalibrateStereoBase)

(* ------------------------- running a graph ---------------------------- *)

Inputs(io) == UNION {Range(io[s].in) : s \in DOMAIN io}

Outputs(io) == UNION {Range(io[s].out) : s \in DOMAIN io}

FreeInputs(io) == Inputs(io) \ Outputs(io)

HasRun(stage) == stage \in Range(order)

(* a stage may run once all of its inputs have a value *)
Ready(io, stage) ==
    /\ stage \in DOMAIN io
    /\ ~HasRun(stage)
    /\ Range(io[stage].in) \subseteq DOMAIN tokens

Arg(io, stage, k) == tokens[io[stage].in[k]]

(* the returned values, bound to the stage's output names by position *)
Bind(io, stage, ret) ==
    [n \in Range(io[stage].out) |->
        ret[CHOOSE k \in 1..Len(io[stage].out) : io[stage].out[k] = n]]

RunStage(io, stage, ret, libcalls) ==
    /\ Ready(io, stage)
    /\ tokens' = Bind(io, stage, ret) @@ tokens
    /\ order' = Append(order, stage)
    /\ calls' = calls \o libcalls
    /\ UNCHANGED <<op, result>>

(* cv2.solvePnP: (retval, rvec, tvec) *)
solve_pnp(pattern_points, image_points, cam_matrix, dist_coefs) ==
    [k \in 1..3 |-> Opaque("cv2.solvePnP", k)]

(* cv2.stereoRectify: (R1, R2, P1, P2, Q, validPixROI1, validPixROI2) *)
compute_rectification_transforms(cm_1, dc_1, cm_2, dc_2, im_wh, R, T) ==
    [k \in 1..7 |-> Opaque("cv2.stereoRectify", k)]

rvec_to_rmat(rvec) == Opaque("rvec_to_rmat", 1)

NoCall == "none"

ImWH == <<640, 480>>

(* pattern geometries used where the image lists are what varies *)
CornerPatterns == {<<2, 1>>}

PatternSizes == (1..MaxW) \X (1..MaxH)

SquareSizes == 1..MaxSquare

(* ----------------- CGCalibrateCamera: one run of the graph ------------- *)

InitMono ==
    /\ \E images \in ImageLists, wh \in CornerPatterns, s \in SquareSizes :
          tokens = [calibration_images |-> images, pattern_size_wh |-> wh,
                    square_size |-> s, im_wh |-> ImWH]
    /\ order = <<>>
    /\ calls = <<>>
    /\ op = NoCall
    /\ result = None

Mono_prepare_corners ==
    LET io == FuncIO_CGCalibrateCamera
        st == "prepare_corners"
    IN  RunStage(io, st, <<prepare_corners(Arg(io, st, 1), Arg(io, st, 2))>>,
                 PrepareCalls(Arg(io, st, 1), Arg(io, st, 2)))

Mono_count_images ==
    LET io == FuncIO_CGCalibrateCamera
        st == "count_images"
    IN  RunStage(io, st, <<Len(Arg(io, st, 1))>>, <<>>)

Mono_prepare_object_points ==
    LET io == FuncIO_CGCalibrateCamera
        st == "prepare_object_points"
    IN  RunStage(io, st,
                 <<prepare_object_points(Arg(io, st, 1), Arg(io, st, 2), Arg(io, st, 3))>>,
                 <<>>)

Mono_calibrate_camera ==
    LET io == FuncIO_CGCalibrateCamera
        st == "calibrate_camera"
    IN  RunStage(io, st,
                 calibrate_camera(Arg(io, st, 1), Arg(io, st, 2), Arg(io, st, 3)),
                 <<[fn |-> "cv2.calibrateCamera", object_points |-> Arg(io, st, 2),
                    image_points |-> Arg(io, st, 3)]>>)

NextMono ==
    \/ Mono_prepare_corners
    \/ Mono_count_images
    \/ Mono_prepare_object_points
    \/ Mono_calibrate_camera

SpecMono == InitMono /\ [][NextMono]_vars

(* --------------------- CGSolvePnP: one run of the graph ---------------- *)

InitPnP ==
    /\ \E im \in ImageSet, wh \in PatternSizes, s \in SquareSizes :
          tokens = [image |-> im, pattern_size_wh |-> wh,
                    pattern_points |-> get_pattern_points(wh, s),
                    cam_matrix |-> Opaque("input", 1),
                    dist_coefs |-> Opaque("input", 2)]
    /\ order = <<>>
    /\ calls = <<>>
    /\ op = NoCall
    /\ result = None

PnP_detect_corners ==
    LET io == FuncIO_CGSolvePnP
        st == "detect_corners"
    IN  RunStage(io, st, <<find_corners_in_one_image(Arg(io, st, 1), Arg(io, st, 2))>>,
                 FindCalls(Arg(io, st, 1), Arg(io, st, 2)))

PnP_solve_pnp ==
    LET io == FuncIO_CGSolvePnP
        st == "solve_pnp"
    IN  RunStage(io, st,
                 solve_pnp(Arg(io, st, 1), Arg(io, st, 2), Arg(io, st, 3), Arg(io, st, 4)),
                 <<[fn |-> "cv2.solvePnP", pattern_points |-> Arg(io, st, 1),
                    image_points |-> Arg(io, st, 2)]>>)

PnP_rvec_to_rmat ==
    LET io == FuncIO_CGSolvePnP
        st == "rvec_to_rmat"
    IN  RunStage(io, st, <<rvec_to_rmat(Arg(io, st, 1))>>, <<>>)

NextPnP ==
    \/ PnP_detect_corners
    \/ PnP_solve_pnp
    \/ PnP_rvec_to_rmat

SpecPnP == InitPnP /\ [][NextPnP]_vars

(* ---------------- CGPreparePointsStereo: one run of the graph ---------- *)

InitPointsStereo ==
    /\ \E images1 \in ImageLists, images2 \in ImageLists, wh \in CornerPatterns :
          tokens = [calibration_images_1 |-> images1, calibration_images_2 |-> images2,
                    pattern_size_wh |-> wh, square_size |-> 1]
    /\ order = <<>>
    /\ calls = <<>>
    /\ op = NoCall
    /\ result = None

PS_prepare_corners_1 ==
    LET io == FuncIO_CGPreparePointsStereo
        st == "prepare_corners_1"
    IN  RunStage(io, st, <<prepare_corners(Arg(io, st, 1), Arg(io, st, 2))>>,
                 PrepareCalls(Arg(io, st, 1), Arg(io, st, 2)))

PS_prepare_corners_2 ==
    LET io == FuncIO_CGPreparePointsStereo
        st == "prepare_corners_2"
    IN  RunStage(io, st, <<prepare_corners(Arg(io, st, 1), Arg(io, st, 2))>>,
                 PrepareCalls(Arg(io, st, 1), Arg(io, st, 2)))

PS_prepare_indices ==
    LET io == FuncIO_CGPreparePointsStereo
        st == "prepare_indices"
    IN  RunStage(io, st, <<prepare_indices_stereocalib(Arg(io, st, 1), Arg(io, st, 2))>>,
                 <<>>)

PS_get_pattern_points ==
    LET io == FuncIO_CGPreparePointsStereo
        st == "get_pattern_points"
    IN  RunStage(io, st, <<get_pattern_points(Arg(io, st, 1), Arg(io, st, 2))>>, <<>>)

NextPointsStereo ==
    \/ PS_prepare_corners_1
    \/ PS_prepare_corners_2
    \/ PS_prepare_indices
    \/ PS_get_pattern_points

SpecPointsStereo == InitPointsStereo /\ [][NextPointsStereo]_vars

(* ------------------ create_stereo_cg: one run of the graph ------------- *)

InitStereoUpTo(maxlen) ==
    /\ \E images1 \in ImageListsUpTo(maxlen), images2 \in ImageListsUpTo(maxlen),
          wh \in CornerPatterns :
          /\ Len(images1) = Len(images2)
          /\ tokens = [calibration_images_1 |-> images1, calibration_images_2 |-> images2,
                       pattern_size_wh |-> wh, square_size |-> 1, im_wh |-> ImWH]
    /\ order = <<>>
    /\ calls = <<>>
    /\ op = NoCall
    /\ result = None

Stereo_prepare_corners ==
    LET io == FuncIO_create_stereo_cg
        st == "prepare_corners"
    IN  RunStage(io, st,
                 prepare_corners_stereo(Arg(io, st, 1), Arg(io, st, 2), Arg(io, st, 3)),
                 PrepareCalls(Arg(io, st, 1), Arg(io, st, 3))
                 \o PrepareCalls(Arg(io, st, 2), Arg(io, st, 3)))

Stereo_prepare_object_points ==
    LET io == FuncIO_create_stereo_cg
        st == "prepare_object_points"
    IN  RunStage(io, st,
                 <<prepare_object_points(Arg(io, st, 1), Arg(io, st, 2), Arg(io, st, 3))>>,
                 <<>>)

Stereo_calibrate_camera_1 ==
    LET io == FuncIO_create_stereo_cg
        st == "calibrate_camera_1"
    IN  RunStage(io, st,
                 calibrate_camera(Arg(io, st, 1), Arg(io, st, 2), Arg(io, st, 3)),
                 <<[fn |-> "cv2.calibrateCamera", object_points |-> Arg(io, st, 2),
                    image_points |-> Arg(io, st, 3)]>>)

Stereo_calibrate_camera_2 ==
    LET io == FuncIO_create_stereo_cg
        st == "calibrate_camera_2"
    IN  RunStage(io, st,
                 calibrate_camera(Arg(io, st, 1), Arg(io, st, 2), Arg(io, st, 3)),
                 <<[fn |-> "cv2.calibrateCamera", object_points |-> Arg(io, st, 2),
                    image_points |-> Arg(io, st, 3)]>>)

Stereo_calibrate_stereo ==
    LET io == FuncIO_create_stereo_cg
        st == "calibrate_stereo"
    IN  RunStage(io, st,
                 calibrate_stereo(Arg(io, st, 1), Arg(io, st, 2), Arg(io, st, 3),
                                  Arg(io, st, 4), Arg(io, st, 5), Arg(io, st, 6),
                                  Arg(io, st, 7), Arg(io, st, 8)),
                 <<[fn |-> "cv2.stereoCalibrate", object_points |-> Arg(io, st, 1),
                    impoints_1 |-> Arg(io, st, 2), impoints_2 |-> Arg(io, st, 3)]>>)

Stereo_compute_rectification_transforms ==
    LET io == FuncIO_create_stereo_cg
        st == "compute_rectification_transforms"
    IN  RunStage(io, st,
                 compute_rectification_transforms(Arg(io, st, 1), Arg(io, st, 2),
                     Arg(io, st, 3), Arg(io, st, 4), Arg(io, st, 5), Arg(io, st, 6),
                     Arg(io, st, 7)),
                 <<[fn |-> "cv2.stereoRectify"]>>)

NextStereo ==
    \/ Stereo_prepare_corners
    \/ Stereo_prepare_object_points
    \/ Stereo_calibrate_camera_1
    \/ Stereo_calibrate_camera_2
    \/ Stereo_calibrate_stereo
    \/ Stereo_compute_rectification_transforms

InitStereo == InitStereoUpTo(MaxImages)

SpecStereo == InitStereo /\ [][NextStereo]_vars

InitStereoFair == InitStereoUpTo(MaxFairImages)

(* the runner keeps running stages while one is ready *)
FairSpecStereo == InitStereoFair /\ [][NextStereo]_vars /\ WF_vars(NextStereo)

(* ------------- object point construction, called directly -------------- *)

InitPattern ==
    /\ \E wh \in PatternSizes, s \in SquareSizes, n \in 0..MaxImages :
          tokens = [pattern_size_wh |-> wh, square_size |-> s, num_images |-> n]
    /\ order = <<>>
    /\ calls = <<>>
    /\ op = NoCall
    /\ result = None

Call_get_pattern_points ==
    /\ op = NoCall
    /\ op' = "get_pattern_points"
    /\ result' = get_pattern_points(tokens.pattern_size_wh, tokens.square_size)
    /\ UNCHANGED <<tokens, order, calls>>

Call_prepare_object_points ==
    /\ op = NoCall
    /\ op' = "prepare_object_points"
    /\ result' = prepare_object_points(tokens.num_images, tokens.pattern_size_wh,
                                       tokens.square_size)
    /\ UNCHANGED <<tokens, order, calls>>

NextPattern ==
    \/ Call_get_pattern_points
    \/ Call_prepare_object_points

SpecPattern == InitPattern /\ [][NextPattern]_vars

(* ------------------------------ properties ---------------------------- *)

Present(images) == {i \in 1..Len(images) : images[i].pattern}

JointlyPresent(images1, images2) ==
    {i \in 1..Len(images1) : i <= Len(images2) /\ images1[i].pattern /\ images2[i].pattern}

(* the k-th smallest element of a set of integers *)
Kth(S, k) == CHOOSE i \in S : Cardinality({j \in S : j < i}) = k - 1

(* what the corner finder and the refinement give for a visible pattern,   *)
(* one 2-D point per row                                                   *)
ExpectedPoints(im, wh) ==
    [j \in 1..(wh[1] * wh[2]) |-> <<100 * im.id + 10 * j + im.id, 100 * im.id - im.id>>]

CalibrateCameraCalls == {i \in 1..Len(calls) : calls[i].fn = "cv2.calibrateCamera"}

(* C1: in CGCalibrateCamera the image_points reaching calibrate_camera     *)
(* hold no None, and num_images and object_points count exactly the images *)
(* whose detection succeeded.                                              *)
C1_FailedImagesExcluded ==
    \A i \in CalibrateCameraCalls :
        LET k == Cardinality(Present(tokens.calibration_images))
        IN  /\ \A j \in 1..Len(calls[i].image_points) : ~IsNone(calls[i].image_points[j])
            /\ Len(calls[i].image_points) = k
            /\ Len(calls[i].object_points) = k
            /\ tokens.num_images = k

(* C2: prepare_corners_stereo on equally long lists returns the detections *)
(* of the jointly successful indices, in input order, and their count.     *)
C2_StereoPairsFiltered ==
    (HasRun("prepare_corners")
     /\ Len(tokens.calibration_images_1) = Len(tokens.calibration_images_2)) =>
        LET im1 == tokens.calibration_images_1
            im2 == tokens.calibration_images_2
            wh == tokens.pattern_size_wh
            J == JointlyPresent(im1, im2)
            n == tokens.num_images
        IN  /\ n = Cardinality(J)
            /\ Len(tokens.image_points_1) = n
            /\ Len(tokens.image_points_2) = n
            /\ \A k \in 1..n :
                  /\ ~IsNone(tokens.image_points_1[k])
                  /\ ~IsNone(tokens.image_points_2[k])
                  /\ tokens.image_points_1[k].data = ExpectedPoints(im1[Kth(J, k)], wh)
                  /\ tokens.image_points_2[k].data = ExpectedPoints(im2[Kth(J, k)], wh)

C2_Witness ==
    /\ HasRun("prepare_corners")
    /\ Len(tokens.calibration_images_1) = 3
    /\ Len(tokens.calibration_images_2) = 3
    /\ ~tokens.calibration_images_1[1].pattern
    /\ tokens.calibration_images_2[1].pattern
    /\ tokens.calibration_images_1[2].pattern
    /\ ~tokens.calibration_images_2[2].pattern
    /\ tokens.num_images = 1

(* C3: prepare_corners returns one entry per image, entry i being the      *)
(* detection of image i: present iff it succeeded, absent otherwise.       *)
CornersAligned(images, corners, wh) ==
    /\ Len(corners) = Len(images)
    /\ \A i \in 1..Len(images) :
          /\ IsNone(corners[i]) <=> ~images[i].pattern
          /\ images[i].pattern => corners[i].data = ExpectedPoints(images[i], wh)
    /\ Cardinality({i \in 1..Len(corners) : ~IsNone(corners[i])})
          = Cardinality(Present(images))

C3_CornersAligned ==
    /\ HasRun("prepare_corners_1") =>
          CornersAligned(tokens.calibration_images_1, tokens.image_points_1,
                         tokens.pattern_size_wh)
    /\ HasRun("prepare_corners_2") =>
          CornersAligned(tokens.calibration_images_2, tokens.image_points_2,
                         tokens.pattern_size_wh)

C3_Witness ==
    /\ HasRun("prepare_corners_1")
    /\ Len(tokens.calibration_images_1) = 3
    /\ tokens.calibration_images_1[1].pattern
    /\ ~tokens.calibration_images_1[2].pattern
    /\ tokens.calibration_images_1[3].pattern
    /\ IsNone(tokens.image_points_1[2])

Pos(stage) == CHOOSE k \in 1..Len(order) : order[k] = stage

(* C4: both mono calibrations precede calibrate_stereo, which precedes     *)
(* compute_rectification_transforms.                                       *)
C4_StereoStageOrder ==
    /\ HasRun("calibrate_stereo") =>
          /\ HasRun("calibrate_camera_1")
          /\ HasRun("calibrate_camera_2")
          /\ Pos("calibrate_camera_1") < Pos("calibrate_stereo")
          /\ Pos("calibrate_camera_2") < Pos("calibrate_stereo")
    /\ HasRun("compute_rectification_transforms") =>
          /\ HasRun("calibrate_stereo")
          /\ Pos("calibrate_stereo") < Pos("compute_rectification_transforms")

C4_Witness ==
    /\ HasRun("compute_rectification_transforms")
    /\ HasRun("calibrate_camera_1")
    /\ Pos("calibrate_camera_2") < Pos("calibrate_camera_1")

(* C5: find_corners_in_one_image returns None exactly when the finder      *)
(* reports failure and the refined points, one 2-D point per row, exactly  *)
(* when it reports success; cornerSubPix is invoked only on success.       *)
C5_DetectionResult ==
    HasRun("detect_corners") =>
        LET im == tokens.image
            found == FindChessboardCorners(im, tokens.pattern_size_wh)[1]
            refined == {i \in 1..Len(calls) : calls[i].fn = "cv2.cornerSubPix"}
        IN  /\ IsNone(tokens.image_points) <=> ~found
            /\ found => /\ tokens.image_points.tag = "ndarray"
                        /\ tokens.image_points.data = ExpectedPoints(im, tokens.pattern_size_wh)
                        /\ \A j \in 1..Len(tokens.image_points.data) :
                              Len(tokens.image_points.data[j]) = 2
            /\ refined # {} <=> found

C5_WitnessFound ==
    /\ HasRun("detect_corners")
    /\ tokens.image.pattern
    /\ tokens.pattern_size_wh = <<3, 2>>
    /\ Len(tokens.image_points.data) = 6

C5_Witness ==
    /\ HasRun("detect_corners")
    /\ ~tokens.image.pattern
    /\ IsNone(tokens.image_points)

(* C6: in CGSolvePnP solve_pnp is never invoked with an absent             *)
(* image_points value.                                                     *)
C6_SolvePnPNeverGetsNone ==
    \A i \in 1..Len(calls) :
        calls[i].fn = "cv2.solvePnP" => ~IsNone(calls[i].image_points)

(* C7: get_pattern_points returns W*H points, the one at k = r*W + c being *)
(* (c*s, r*s, 0); prepare_object_points returns n entries equal to it.     *)
ExpectedGrid(wh, s) ==
    [p \in 1..(wh[1] * wh[2]) |->
        <<((p - 1) % wh[1]) * s, ((p - 1) \div wh[1]) * s, 0>>]

C7_PatternGrid ==
    LET W == tokens.pattern_size_wh[1]
        H == tokens.pattern_size_wh[2]
        s == tokens.square_size
    IN  /\ op = "get_pattern_points" =>
              /\ Len(result.data) = W * H
              /\ \A r \in 0..(H - 1), c \in 0..(W - 1) :
                    result.data[r * W + c + 1] = <<c * s, r * s, 0>>
        /\ op = "prepare_object_points" =>
              /\ Len(result) = tokens.num_images
              /\ \A i \in 1..Len(result) :
                    result[i].data = ExpectedGrid(tokens.pattern_size_wh, s)

C7_Witness ==
    /\ op = "get_pattern_points"
    /\ tokens.pattern_size_wh = <<3, 2>>
    /\ tokens.square_size = 2
    /\ result.data[5] = <<2, 2, 0>>

(* C8: prepare_indices_stereocalib on equally long lists returns, strictly *)
(* ascending, exactly the indices where neither side is None.              *)
C8_JointIndices ==
    (HasRun("prepare_indices")
     /\ Len(tokens.image_points_1) = Len(tokens.image_points_2)) =>
        LET c1 == tokens.image_points_1
            c2 == tokens.image_points_2
            idx == tokens.indices
        IN  /\ \A k \in 1..(Len(idx) - 1) : idx[k] < idx[k + 1]
            /\ Range(idx) = {i \in 0..(Len(c1) - 1) :
                               ~IsNone(c1[i + 1]) /\ ~IsNone(c2[i + 1])}

C8_Witness ==
    /\ HasRun("prepare_indices")
    /\ Len(tokens.image_points_1) = 3
    /\ Len(tokens.image_points_2) = 3
    /\ IsNone(tokens.image_points_1[1])
    /\ tokens.indices = <<1, 2>>

(* C9: the pair filtering of prepare_corners_stereo agrees with            *)
(* prepare_indices_stereocalib on the same detections, of any lengths.     *)
C9_SameFiltering ==
    HasRun("prepare_indices") =>
        LET c1 == tokens.image_points_1
            c2 == tokens.image_points_2
            idx == tokens.indices
            f == FilterCornersStereo(c1, c2)
        IN  /\ f[3] = Len(idx)
            /\ Len(f[1]) = Len(idx)
            /\ Len(f[2]) = Len(idx)
            /\ \A k \in 1..Len(idx) :
                  /\ f[1][k] = c1[idx[k] + 1]
                  /\ f[2][k] = c2[idx[k] + 1]

C9_Witness ==
    /\ HasRun("prepare_indices")
    /\ Len(tokens.image_points_1) = 3
    /\ Len(tokens.image_points_2) = 2
    /\ IsNone(tokens.image_points_1[1])
    /\ tokens.indices = <<1>>

StereoStages ==
    {"prepare_corners", "prepare_object_points", "calibrate_camera_1",
     "calibrate_camera_2", "calibrate_stereo", "compute_rectification_transforms"}

StereoFreeInputs ==
    {"calibration_images_1", "calibration_images_2", "pattern_size_wh",
     "square_size", "im_wh"}

SingleProducer(io) ==
    /\ \A s, t \in DOMAIN io : s # t => Range(io[s].out) \cap Range(io[t].out) = {}
    /\ \A s \in DOMAIN io : Cardinality(Range(io[s].out)) = Len(io[s].out)

(* stages that need, directly or through other stages, an output of stage s *)
RECURSIVE Downstream(_, _)
Downstream(io, S) ==
    LET more == {t \in DOMAIN io :
                    \E s \in S : Range(io[s].out) \cap Range(io[t].in) # {}}
    IN  IF more \subseteq S THEN S ELSE Downstream(io, S \cup more)

Consumers(io, s) == {t \in DOMAIN io : Range(io[s].out) \cap Range(io[t].in) # {}}

Acyclic(io) ==
    \A s \in DOMAIN io : Consumers(io, s) = {} \/ s \notin Downstream(io, Consumers(io, s))

Times(stage) == Cardinality({k \in 1..Len(order) : order[k] = stage})

AllStereoStagesRan == \A s \in StereoStages : Times(s) = 1

(* C10: the composed stereo graph resolves: one producer per name, no      *)
(* cycle, the five free inputs, no stage run twice, and every run reaches  *)
(* the state where each of the six stages has run exactly once.            *)
C10_StereoGraphResolves ==
    /\ [](/\ DOMAIN FuncIO_create_stereo_cg = StereoStages
          /\ SingleProducer(FuncIO_create_stereo_cg)
          /\ Acyclic(FuncIO_create_stereo_cg)
          /\ FreeInputs(FuncIO_create_stereo_cg) = StereoFreeInputs
          /\ Range(order) \subseteq StereoStages
          /\ \A s \in StereoStages : Times(s) <= 1
          /\ AllStereoStagesRan \/ \E s \in StereoStages :
                                      Ready(FuncIO_create_stereo_cg, s))
    /\ <>[]AllStereoStagesRan

C10_Witness ==
    /\ Len(order) = 6
    /\ AllStereoStagesRan
    /\ "R1" \in DOMAIN tokens

====
